---- MODULE Spec2Model ----
(***************************************************************************)
(* A model of the KenKen backtracking solver of gjdanis/kenken.            *)
(*                                                                         *)
(*   src/puzzle.py   Puzzle, Cell, Constraint and its six variants         *)
(*   src/solver.py   ReductionStrategy and backtrack_solve                 *)
(*   src/utils.py    pairs, flatten, product                               *)
(*   src/parsing.py  parse_string, which builds the constraint list        *)
(*                                                                         *)
(* Cells are numbered 1..width*width in row-major order.  A cell value of  *)
(* None is NoValue.  The recursion of solve() is an explicit stack of      *)
(* frames; pc is the position of the innermost invocation.                 *)
(***************************************************************************)
EXTENDS Integers, Sequences, FiniteSets, TLC

----------------------------------------------------------------------------
(* Bounds of the model                                                     *)

\* every puzzle of at most MaxCells cells is in the model (the 1x1 and the
\* 2x2 grids); of the 3x3 grid, the puzzles of SamplePuzzles
MaxCells == 4

\* cage targets are drawn from 0..MaxTarget
MaxTarget == 4
\* parse_string is run on definitions of width at most MaxParseWidth with at
\* most MaxParseCages cages of at most MaxCageSize cells
MaxParseWidth == 2
MaxParseCages == 2
MaxCageSize == 3

\* the value of an unassigned cell (None in the source)
NoValue == 0

----------------------------------------------------------------------------
(* Arithmetic helpers (src/utils.py and Python builtins)                   *)

RECURSIVE sum(_)
sum(s) == IF s = <<>> THEN 0 ELSE Head(s) + sum(Tail(s))

RECURSIVE product(_)
product(s) == IF s = <<>> THEN 1 ELSE Head(s) * product(Tail(s))

abs(x) == IF x < 0 THEN 0 - x ELSE x

\* the set of the elements of a sequence
Range(s) == {s[i] : i \in 1..Len(s)}

\* itertools.combinations(nums, 2): the pairs of two different members of
\* nums, here both ways round (every predicate they are filtered by is
\* symmetric)
pairs(nums) == {p \in nums \X nums : p[1] # p[2]}

\* flatten: every member of every pair
flatten(ps) == {p[1] : p \in ps} \cup {p[2] : p \in ps}

----------------------------------------------------------------------------
(* The grid                                                                *)

CellsOf(w) == 1..(w * w)
RowOf(w, c) == (c - 1) \div w
ColOf(w, c) == (c - 1) % w

\* the members of a set of cell numbers, ascending, as a sequence
RECURSIVE SortedSeq(_)
SortedSeq(S) ==
    IF S = {} THEN <<>>
    ELSE LET m == CHOOSE x \in S : \A y \in S : x <= y
         IN  <<m>> \o SortedSeq(S \ {m})

----------------------------------------------------------------------------
(* Puzzle definitions: the dictionary handed to parse_string               *)

TYPE_ADD == "+"
TYPE_SUB == "-"
TYPE_MUL == "*"
TYPE_DIV == "/"
TYPE_CON == "$"
\* the type tag the model gives a UniquenessConstraint
TYPE_UNIQUE == "unique"

\* A layout maps every cell to the number of its cage.  Every partition of
\* the cells is one layout, written as a restricted-growth function.
AllLayouts(w) ==
    {f \in [CellsOf(w) -> CellsOf(w)] :
        /\ f[1] = 1
        /\ \A i \in 2..(w * w) : \E j \in 1..(i - 1) : f[i] <= f[j] + 1}

\* every layout of every grid of at most MaxCells cells
Layouts ==
    UNION {{<<w, f>> : f \in AllLayouts(w)} :
              w \in {x \in 1..MaxCells : x * x <= MaxCells}}

NumCages(w, layout) == Cardinality({layout[c] : c \in CellsOf(w)})
CageCells(w, layout, i) == {c \in CellsOf(w) : layout[c] = i}

\* the operations a cage of n cells may carry: SingleValue on one cell,
\* Sub and Div on exactly two cells (spec section 3), Add and Mul on two or
\* more
AllowedOps(n) ==
    IF n = 1 THEN {TYPE_CON}
    ELSE IF n = 2 THEN {TYPE_ADD, TYPE_MUL, TYPE_SUB, TYPE_DIV}
    ELSE {TYPE_ADD, TYPE_MUL}

\* every list of cages over the layout's cages i..NumCages
RECURSIVE CageLists(_, _, _)
CageLists(w, layout, i) ==
    IF i > NumCages(w, layout) THEN {<<>>}
    ELSE LET cs == CageCells(w, layout, i)
         IN  {<<[value |-> v, op |-> o, cells |-> cs]>> \o rest :
                 v \in 0..MaxTarget,
                 o \in AllowedOps(Cardinality(cs)),
                 rest \in CageLists(w, layout, i + 1)}

----------------------------------------------------------------------------
(* parse_string: the constraint list of a puzzle                           *)

\* the ValueConstraint built for one cage
CageConstraint(cage) ==
    [type |-> cage.op, value |-> cage.value, cells |-> SortedSeq(cage.cells)]

\* the UniquenessConstraint over a set of cells
UniquenessConstraint(cs) ==
    [type |-> TYPE_UNIQUE, value |-> 0, cells |-> SortedSeq(cs)]

\* the row and the column constraint appended for every index below w, each
\* over the parsed cells of that row or column
RECURSIVE UniquenessConstraints(_, _, _)
UniquenessConstraints(w, cells, i) ==
    IF i >= w THEN <<>>
    ELSE << UniquenessConstraint({c \in cells : RowOf(w, c) = i}),
            UniquenessConstraint({c \in cells : ColOf(w, c) = i}) >>
         \o UniquenessConstraints(w, cells, i + 1)

\* puzzle_cells after the first n cages of the list
RECURSIVE puzzle_cells(_, _)
puzzle_cells(cages, n) ==
    IF n = 0 THEN {} ELSE puzzle_cells(cages, n - 1) \cup cages[n].cells

\* puzzle_cells is a set of Cell objects: the order in which it is iterated
\* is fixed for a run but is no property of the definition.  The model runs
\* every puzzle under two such orders, row-major and its reverse.
RowMajor(w) == [i \in 1..(w * w) |-> i]
Reverse(s) == [i \in 1..Len(s) |-> s[Len(s) + 1 - i]]
CellOrders(w) == {RowMajor(w), Reverse(RowMajor(w))}

\* the Puzzle parse_string returns when it raises nothing
parse_string(w, cages, order) ==
    [width |-> w,
     cells |-> order,
     constraints |-> [i \in 1..Len(cages) |-> CageConstraint(cages[i])]
                        \o UniquenessConstraints(w, puzzle_cells(cages, Len(cages)), 0)]

\* the keys of VALUE_CONSTRAINTS
VALUE_CONSTRAINTS == {TYPE_ADD, TYPE_SUB, TYPE_MUL, TYPE_DIV, TYPE_CON}

\* the checks parse_string makes on cage i, after the cages before it were
\* accepted: the cage has a value, shares no cell with an earlier cage, and
\* names a known operation
CageRaises(cages, i) ==
    \/ "value" \notin DOMAIN cages[i]
    \/ cages[i].cells \cap puzzle_cells(cages, i - 1) # {}
    \/ cages[i].op \notin VALUE_CONSTRAINTS

\* parse_string raises: on a cage, or on the number of parsed cells
Raises(d) ==
    \/ \E i \in 1..Len(d.cages) : CageRaises(d.cages, i)
    \/ Cardinality(puzzle_cells(d.cages, Len(d.cages))) # d.width * d.width

Cage(v, o, cs) == [value |-> v, op |-> o, cells |-> cs]

\* 3x3 puzzles: a cage per row, every row Add or Mul with target 5 or 6; and
\* a layout of one single cell and four two-cell cages
SampleCages ==
    {<<Cage(a, oa, {1, 2, 3}), Cage(b, ob, {4, 5, 6}), Cage(6, TYPE_ADD, {7, 8, 9})>> :
        a \in {5, 6}, b \in {5, 6}, oa \in {TYPE_ADD, TYPE_MUL},
        ob \in {TYPE_ADD, TYPE_MUL}}
    \cup
    {<<Cage(a, TYPE_ADD, {1, 2}), Cage(b, TYPE_CON, {3}),
       Cage(c, TYPE_DIV, {4, 7}), Cage(6, TYPE_MUL, {5, 6}),
       Cage(d, TYPE_SUB, {8, 9})>> :
        a \in {3, 4}, b \in {2, 3}, c \in {2, 3}, d \in {1, 2}}

SamplePuzzles ==
    {parse_string(3, cages, order) :
        cages \in SampleCages, order \in CellOrders(3)}

\* the definitions the search is run on: every cage list of every layout
\* within the bounds, and the 3x3 samples
Definitions ==
    UNION {{[width |-> l[1], cages |-> cages] : cages \in CageLists(l[1], l[2], 1)} :
              l \in Layouts}
        \cup {[width |-> 3, cages |-> cages] : cages \in SampleCages}

Puzzles ==
    UNION {{parse_string(l[1], cages, order) :
               cages \in CageLists(l[1], l[2], 1), order \in CellOrders(l[1])} :
              l \in Layouts}
        \cup SamplePuzzles

----------------------------------------------------------------------------
(* State                                                                   *)

VARIABLES
    definition, \* the dictionary handed to parse_string
    puzzle,     \* the Puzzle: width and constraint list (never changes)
    value,      \* Cell.value of every cell, NoValue when unassigned
    domain,     \* Cell.domain of every cell
    pc,         \* "start", "call", "loop", "ret" or "done"
    stack,      \* the solve() invocations inside their candidate loop
    ret,        \* the value returned by the invocation that just returned
    stats,      \* backtracks and recursive_calls
    result      \* the success flag backtrack_solve returned

vars == <<definition, puzzle, value, domain, pc, stack, ret, stats, result>>

Width == puzzle.width
Cells == CellsOf(Width)

----------------------------------------------------------------------------
(* Constraint (src/puzzle.py), over a grid of values g                     *)

\* Constraint.values
values(con, g) == [i \in 1..Len(con.cells) |-> g[con.cells[i]]]

\* Constraint.unassigned and Constraint.assigned, as sequences of cells
unassigned(con, g) == SelectSeq(con.cells, LAMBDA c : g[c] = NoValue)
assigned(con, g) == SelectSeq(con.cells, LAMBDA c : g[c] # NoValue)

assignedValues(con, g) ==
    [i \in 1..Len(assigned(con, g)) |-> g[assigned(con, g)[i]]]

\* evaluate with the Div rule written with floor division
evaluateFloorDiv(con, vs) ==
    CASE con.type = TYPE_UNIQUE -> Len(vs) = Cardinality(Range(vs))
      [] con.type = TYPE_ADD -> sum(vs) = con.value
      [] con.type = TYPE_MUL -> product(vs) = con.value
      [] con.type = TYPE_SUB -> abs(vs[1] - vs[2]) = con.value
      [] con.type = TYPE_DIV -> \/ vs[1] \div vs[2] = con.value
                                \/ vs[2] \div vs[1] = con.value
      [] con.type = TYPE_CON -> vs[1] = con.value

\* Constraint.evaluate of each variant
evaluate(con, vs) ==
    CASE con.type = TYPE_UNIQUE -> Len(vs) = Cardinality(Range(vs))
      [] con.type = TYPE_ADD -> sum(vs) = con.value
      [] con.type = TYPE_MUL -> product(vs) = con.value
      [] con.type = TYPE_SUB -> abs(vs[1] - vs[2]) = con.value
      [] con.type = TYPE_DIV -> \/ vs[1] = vs[2] * con.value
                                \/ vs[2] = vs[1] * con.value
      [] con.type = TYPE_CON -> vs[1] = con.value

\* Constraint.solved
ConstraintSolved(con, g) ==
    /\ NoValue \notin Range(values(con, g))
    /\ evaluate(con, values(con, g))

\* Constraint.consistent
ConstraintConsistent(con, g) ==
    \/ NoValue \in Range(values(con, g))
    \/ ConstraintSolved(con, g)

\* AddConstraint.remainder and MulConstraint.remainder
AddRemainder(con, g) == con.value - sum(assignedValues(con, g))
MulRemainder(con, g) == con.value \div product(assignedValues(con, g))

----------------------------------------------------------------------------
(* ReductionStrategy (src/solver.py)                                       *)

\* reduce_unique that removes nothing
reduce_unique_keep(con, g, cands) == cands

reduce_unique(con, g, cands) ==
    LET vs == Range(assignedValues(con, g))
    IN  (cands \ vs) \cup (vs \ cands)

\* reduce_add leaving room for more than the remaining cells need
reduce_add_strict(con, g, cands) ==
    LET remainder == AddRemainder(con, g)
    IN  IF Len(unassigned(con, g)) = 1
        THEN IF remainder \in cands THEN {remainder} ELSE {}
        ELSE {c \in cands : remainder - c > 1}

reduce_add(con, g, cands) ==
    LET remainder == AddRemainder(con, g)
    IN  IF Len(unassigned(con, g)) = 1
        THEN IF remainder \in cands THEN {remainder} ELSE {}
        ELSE {c \in cands : remainder - c > 0}

reduce_mul(con, g, cands) ==
    LET remainder == MulRemainder(con, g)
    IN  IF Len(unassigned(con, g)) = 1
        THEN IF remainder \in cands THEN {remainder} ELSE {}
        ELSE {c \in cands : remainder % c = 0}

reduce_sub(con, g, cands) ==
    flatten({p \in pairs(cands) : evaluate(con, p)})

reduce_div(con, g, cands) ==
    flatten({p \in pairs(cands) : evaluate(con, p)})

reduce_con(con, g, cands) ==
    IF con.value \in cands THEN {con.value} ELSE {}

\* Constraint.reduce of each variant
reduce(con, g, cands) ==
    CASE con.type = TYPE_UNIQUE -> reduce_unique(con, g, cands)
      [] con.type = TYPE_ADD -> reduce_add(con, g, cands)
      [] con.type = TYPE_MUL -> reduce_mul(con, g, cands)
      [] con.type = TYPE_SUB -> reduce_sub(con, g, cands)
      [] con.type = TYPE_DIV -> reduce_div(con, g, cands)
      [] con.type = TYPE_CON -> reduce_con(con, g, cands)

----------------------------------------------------------------------------
(* Cell and Puzzle (src/puzzle.py)                                         *)

\* Cell.constraints: the constraints the cell is in, in the order in which
\* Constraint.__init__ appended them, i.e. in constraint-list order
CellConstraints(pz, cell) ==
    SelectSeq(pz.constraints, LAMBDA con : cell \in Range(con.cells))

\* the loop of Cell.candidates without the intersection with the candidates
\* so far
RECURSIVE narrowReplace(_, _, _)
narrowReplace(cons, g, cands) ==
    IF cons = <<>> THEN cands
    ELSE narrowReplace(Tail(cons), g, reduce(Head(cons), g, cands))

\* the loop of Cell.candidates over a list of constraints
RECURSIVE narrow(_, _, _)
narrow(cons, g, cands) ==
    IF cons = <<>> THEN cands
    ELSE narrow(Tail(cons), g, cands \cap reduce(Head(cons), g, cands))

\* Cell.candidates
candidates(pz, g, dom, cell) == narrow(CellConstraints(pz, cell), g, dom[cell])

\* Puzzle.domain with the range one too long
PuzzleDomainWide(pz) == 1..(pz.width + 1)

\* Puzzle.domain
PuzzleDomain(pz) == 1..pz.width

\* Puzzle.unassigned: the unassigned cells in the order puzzle.cells yields
\* them
PuzzleUnassigned(pz, g) == SelectSeq(pz.cells, LAMBDA c : g[c] = NoValue)

\* Puzzle.solved
solved(pz, g) ==
    \A i \in 1..Len(pz.constraints) : ConstraintSolved(pz.constraints[i], g)

\* a check that finds every grid consistent
consistentAlways(pz, g) == TRUE

\* Puzzle.consistent
consistent(pz, g) ==
    \A i \in 1..Len(pz.constraints) : ConstraintConsistent(pz.constraints[i], g)

----------------------------------------------------------------------------
(* backtrack_solve (src/solver.py)                                         *)

Top == stack[Len(stack)]
Pop(st) == SubSeq(st, 1, Len(st) - 1)

\* cell.value = None left out
UnassignSkip(g, cell) == g

\* cell.value = candidate and cell.value = None
Assign(g, cell, v) == [g EXCEPT ![cell] = v]
Unassign(g, cell) == [g EXCEPT ![cell] = NoValue]

\* the counters left as they are
CountBacktrackSkip(st) == st
CountRecursiveCallSkip(st) == st

\* the backtrack counted on the other counter
CountBacktrackAsCall(st) == [st EXCEPT !.recursive_calls = @ + 1]

\* stats['backtracks'] += 1 and stats['recursive_calls'] += 1
CountBacktrack(st) == [st EXCEPT !.backtracks = @ + 1]
CountRecursiveCall(st) == [st EXCEPT !.recursive_calls = @ + 1]

\* a loop that yields the same candidates again
RemainingAll(todo, candidate) == todo

\* the candidates the for loop over cell.candidates has still to yield after
\* it yielded candidate (the loop yields the members of the set in any order)
Remaining(todo, candidate) == todo \ {candidate}

\* the first unassigned cell, the list left unsorted
FirstUnassigned(pz, g, dom) == PuzzleUnassigned(pz, g)[1]

\* the first cell of sorted(puzzle.unassigned, key=len(candidates)): the
\* sort is stable, so among the cells with the fewest candidates it is the
\* first one that puzzle.unassigned yields
FirstInSolveOrder(pz, g, dom) ==
    LET un == PuzzleUnassigned(pz, g)
        n(c) == Cardinality(candidates(pz, g, dom, c))
        fewest == {i \in 1..Len(un) : \A j \in 1..Len(un) : n(un[i]) <= n(un[j])}
    IN  un[CHOOSE i \in fewest : \A j \in fewest : i <= j]

\* the state after construction: a parsed puzzle, every cell unassigned and
\* Cell.domain still the empty class attribute
Init ==
    /\ definition \in Definitions
    /\ puzzle \in {parse_string(definition.width, definition.cages, order) :
                      order \in CellOrders(definition.width)}
    /\ value = [c \in Cells |-> NoValue]
    /\ domain = [c \in Cells |-> {}]
    /\ pc = "start"
    /\ stack = <<>>
    /\ ret = FALSE
    /\ stats = [backtracks |-> 0, recursive_calls |-> 0]
    /\ result = FALSE

\* initialize() and the first call of solve()
Initialize ==
    /\ pc = "start"
    /\ domain' = [c \in Cells |-> PuzzleDomain(puzzle)]
    /\ pc' = "call"
    /\ UNCHANGED <<definition, puzzle, value, stack, ret, stats, result>>

\* solve() entered with no unassigned cell: return puzzle.solved
EnterComplete ==
    /\ pc = "call"
    /\ PuzzleUnassigned(puzzle, value) = <<>>
    /\ ret' = solved(puzzle, value)
    /\ pc' = "ret"
    /\ UNCHANGED <<definition, puzzle, value, domain, stack, stats, result>>

\* solve() entered with unassigned cells: take the first cell of solve_order
\* and start the loop over its candidates.  entry records the grid at entry.
EnterCell ==
    /\ pc = "call"
    /\ PuzzleUnassigned(puzzle, value) # <<>>
    /\ LET cell == FirstInSolveOrder(puzzle, value, domain)
       IN  stack' = Append(stack,
                           [cell |-> cell,
                            todo |-> candidates(puzzle, value, domain, cell),
                            entry |-> value])
    /\ pc' = "loop"
    /\ UNCHANGED <<definition, puzzle, value, domain, ret, stats, result>>

\* one candidate of the loop, the puzzle consistent with it: count the
\* recursive call and make it
TryConsistent ==
    /\ pc = "loop"
    /\ \E candidate \in Top.todo :
          /\ consistent(puzzle, Assign(value, Top.cell, candidate))
          /\ value' = Assign(value, Top.cell, candidate)
          /\ stack' = [stack EXCEPT ![Len(stack)].todo = Remaining(@, candidate)]
    /\ stats' = CountRecursiveCall(stats)
    /\ pc' = "call"
    /\ UNCHANGED <<definition, puzzle, domain, ret, result>>

\* one candidate of the loop, the puzzle inconsistent with it: unassign
TryInconsistent ==
    /\ pc = "loop"
    /\ \E candidate \in Top.todo :
          /\ ~consistent(puzzle, Assign(value, Top.cell, candidate))
          /\ value' = Unassign(Assign(value, Top.cell, candidate), Top.cell)
          /\ stack' = [stack EXCEPT ![Len(stack)].todo = Remaining(@, candidate)]
    /\ UNCHANGED <<definition, puzzle, domain, pc, ret, stats, result>>

\* the candidates of the first cell are exhausted: count a backtrack and
\* return False
Exhaust ==
    /\ pc = "loop"
    /\ Top.todo = {}
    /\ stats' = CountBacktrack(stats)
    /\ stack' = Pop(stack)
    /\ ret' = FALSE
    /\ pc' = "ret"
    /\ UNCHANGED <<definition, puzzle, value, domain, result>>

\* the recursive call returned True: unassign the cell on the way out
ReturnTrueUnassign ==
    /\ pc = "ret"
    /\ stack # <<>>
    /\ ret
    /\ value' = Unassign(value, Top.cell)
    /\ stack' = Pop(stack)
    /\ UNCHANGED <<definition, puzzle, domain, pc, ret, stats, result>>

\* the recursive call returned True: return True
ReturnTrue ==
    /\ pc = "ret"
    /\ stack # <<>>
    /\ ret
    /\ stack' = Pop(stack)
    /\ UNCHANGED <<definition, puzzle, value, domain, pc, ret, stats, result>>

\* the recursive call returned False: unassign and go on with the loop
ReturnFalse ==
    /\ pc = "ret"
    /\ stack # <<>>
    /\ ~ret
    /\ value' = Unassign(value, Top.cell)
    /\ pc' = "loop"
    /\ UNCHANGED <<definition, puzzle, domain, stack, ret, stats, result>>

\* the outermost solve() returned: backtrack_solve returns (success, stats)
Finish ==
    /\ pc = "ret"
    /\ stack = <<>>
    /\ result' = ret
    /\ pc' = "done"
    /\ UNCHANGED <<definition, puzzle, value, domain, stack, ret, stats>>

Next ==
    \/ Initialize
    \/ EnterComplete
    \/ EnterCell
    \/ TryConsistent
    \/ TryInconsistent
    \/ Exhaust
    \/ ReturnTrue
    \/ ReturnFalse
    \/ Finish

Spec == Init /\ [][Next]_vars

----------------------------------------------------------------------------
(* parse_string (src/parsing.py) run on arbitrary definitions             *)

\* the cells a definition may name: the cells of the grid and the cell
\* (w, 0), which lies outside it
ParseCells(w) == 1..(w * w + 1)

\* the cage dictionaries of a definition: any operation key, known or not,
\* at most MaxCageSize cells, the value present or missing
ParseCages(w) ==
    LET cellSets == {cs \in SUBSET ParseCells(w) : Cardinality(cs) <= MaxCageSize}
        ops == VALUE_CONSTRAINTS \cup {"%"}
    IN  {[value |-> 1, op |-> o, cells |-> cs] : o \in ops, cs \in cellSets}
            \cup {[op |-> o, cells |-> cs] : o \in ops, cs \in cellSets}

\* the definitions of width w: every list of at most MaxParseCages cages
ParseDefinitions(w) ==
    {[width |-> w, cages |-> cages] :
        cages \in UNION {[1..n -> ParseCages(w)] : n \in 0..MaxParseCages}}

\* no Puzzle built yet
NoPuzzle == [width |-> 0, cells |-> <<>>, constraints |-> <<>>]

ParseInit ==
    /\ \E w \in 1..MaxParseWidth : definition \in ParseDefinitions(w)
    /\ puzzle = NoPuzzle
    /\ value = <<>>
    /\ domain = <<>>
    /\ pc = "parse"
    /\ stack = <<>>
    /\ ret = FALSE
    /\ stats = [backtracks |-> 0, recursive_calls |-> 0]
    /\ result = FALSE

\* parse_string returns the Puzzle
ParseReturn ==
    /\ pc = "parse"
    /\ ~Raises(definition)
    /\ LET cells == SortedSeq(puzzle_cells(definition.cages, Len(definition.cages)))
       IN  \E order \in {cells, Reverse(cells)} :
              puzzle' = parse_string(definition.width, definition.cages, order)
    /\ pc' = "parsed"
    /\ UNCHANGED <<definition, value, domain, stack, ret, stats, result>>

\* parse_string raises
ParseRaise ==
    /\ pc = "parse"
    /\ Raises(definition)
    /\ pc' = "raised"
    /\ UNCHANGED <<definition, puzzle, value, domain, stack, ret, stats, result>>

ParseNext ==
    \/ ParseReturn
    \/ ParseRaise

ParseSpec == ParseInit /\ [][ParseNext]_vars

TypeOK ==
    /\ pc \in {"start", "call", "loop", "ret", "done"}
    /\ \A c \in Cells : value[c] \in 0..Width

----------------------------------------------------------------------------
(* What a solution is, stated without the solver's own checks              *)

RowCells(w, r) == {c \in CellsOf(w) : RowOf(w, c) = r}
ColCells(w, k) == {c \in CellsOf(w) : ColOf(w, c) = k}

\* every value of 1..w exactly once in every row and every column of grid g
LatinSquare(w, g) ==
    /\ \A c \in CellsOf(w) : g[c] \in 1..w
    /\ \A i \in 0..(w - 1) : \A v \in 1..w :
          /\ Cardinality({c \in RowCells(w, i) : g[c] = v}) = 1
          /\ Cardinality({c \in ColCells(w, i) : g[c] = v}) = 1

RECURSIVE SumOver(_, _)
SumOver(S, g) ==
    IF S = {} THEN 0
    ELSE LET c == CHOOSE x \in S : TRUE IN g[c] + SumOver(S \ {c}, g)

RECURSIVE ProductOver(_, _)
ProductOver(S, g) ==
    IF S = {} THEN 1
    ELSE LET c == CHOOSE x \in S : TRUE IN g[c] * ProductOver(S \ {c}, g)

Larger(S, g) == CHOOSE v \in {g[c] : c \in S} : \A c \in S : g[c] <= v
Smaller(S, g) == CHOOSE v \in {g[c] : c \in S} : \A c \in S : v <= g[c]

\* the rule of a cage on the values of grid g
CageRule(con, g) ==
    LET S == Range(con.cells)
    IN  CASE con.type = TYPE_ADD -> SumOver(S, g) = con.value
          [] con.type = TYPE_MUL -> ProductOver(S, g) = con.value
          [] con.type = TYPE_SUB -> Larger(S, g) - Smaller(S, g) = con.value
          [] con.type = TYPE_DIV -> Larger(S, g) = Smaller(S, g) * con.value
          [] con.type = TYPE_CON -> \A c \in S : g[c] = con.value
          [] OTHER -> TRUE

Cages(pz) ==
    {pz.constraints[i] : i \in {j \in 1..Len(pz.constraints) :
                                    pz.constraints[j].type # TYPE_UNIQUE}}

\* grid g is a solution of the puzzle
Satisfies(pz, g) ==
    /\ LatinSquare(pz.width, g)
    /\ \A con \in Cages(pz) : CageRule(con, g)

HasSolution(pz) == \E g \in [CellsOf(pz.width) -> 1..pz.width] : Satisfies(pz, g)

\* the two cells of every Sub and Div cage lie in one row or in one column
PairsAligned(pz) ==
    \A con \in Cages(pz) :
        con.type \in {TYPE_SUB, TYPE_DIV} =>
            \/ RowOf(pz.width, con.cells[1]) = RowOf(pz.width, con.cells[2])
            \/ ColOf(pz.width, con.cells[1]) = ColOf(pz.width, con.cells[2])

Returned == pc = "done"

----------------------------------------------------------------------------
(* Claims                                                                  *)

\* C1: whenever backtrack_solve returns success, every cell holds a value of
\* 1..N and every row and every column holds each value of 1..N exactly once
C1_SolvedIsLatin == (Returned /\ result) => LatinSquare(Width, value)

C1_Witness == Returned /\ result /\ Width = 3 /\ stats.backtracks > 0

\* C2: whenever backtrack_solve returns success, every cage satisfies its
\* rule on the final values (sum, product, difference, even quotient, fixed
\* value)
C2_SolvedCagesHold ==
    (Returned /\ result) => \A con \in Cages(puzzle) : CageRule(con, value)

C2_Witness ==
    /\ Returned /\ result
    /\ \E con \in Cages(puzzle) : con.type = TYPE_DIV
    /\ \E con \in Cages(puzzle) : con.type = TYPE_SUB

\* C3 as claimed: a well-formed puzzle that has a solution is solved
C3_CompleteAsClaimed == (Returned /\ HasSolution(puzzle)) => result

\* C3 amended: a well-formed puzzle in which the two cells of every Sub and
\* Div cage share a row or a column, and that has a solution, is solved;
\* success=false is returned only when no solution exists
C3_CompleteWhenAligned ==
    (Returned /\ PairsAligned(puzzle) /\ HasSolution(puzzle)) => result

C3_Witness ==
    /\ Returned /\ result /\ PairsAligned(puzzle) /\ HasSolution(puzzle)
    /\ stats.backtracks > 0
    /\ \E con \in Cages(puzzle) : con.type \in {TYPE_SUB, TYPE_DIV}

\* C4: a puzzle without a solution makes backtrack_solve return
\* success=false with backtracks >= 1
C4_UnsatisfiableFails ==
    (Returned /\ ~HasSolution(puzzle)) => (~result /\ stats.backtracks >= 1)

\* the example of the spec: 2x2, two SingleValue cages demanding 1 in row 0
C4_Witness ==
    /\ Returned /\ ~result /\ Width = 2
    /\ \E a, b \in Cages(puzzle) :
          /\ a.type = TYPE_CON /\ a.value = 1 /\ a.cells = <<1>>
          /\ b.type = TYPE_CON /\ b.value = 1 /\ b.cells = <<2>>

\* the 1x1 puzzle whose cell is in a SingleValue cage with target 1
OneByOne ==
    /\ Width = 1
    /\ puzzle.constraints[1] = [type |-> TYPE_CON, value |-> 1, cells |-> <<1>>]

\* C5 as claimed: the 1x1 puzzle with a SingleValue cage of target 1 is
\* solved with recursive_calls = 0
C5_OneByOneAsClaimed ==
    (Returned /\ OneByOne) => (result /\ stats.recursive_calls = 0)

\* C5 amended: the 1x1 puzzle with a SingleValue cage of target 1 is solved
\* with recursive_calls = 1 (the one consistent assignment) and no backtrack
C5_OneByOne ==
    (Returned /\ OneByOne) =>
        (result /\ stats.recursive_calls = 1 /\ stats.backtracks = 0)

C5_Witness == Returned /\ OneByOne /\ result /\ value[1] = 1

AssignedCount == Cardinality({c \in Cells : value[c] # NoValue})

\* the invocations that hold an assignment of their cell: every one on the
\* stack but the innermost while it is between two candidates
AssigningFrames == IF pc = "loop" THEN Len(stack) - 1 ELSE Len(stack)

DepthBounded ==
    /\ Len(stack) <= Width * Width
    /\ AssignedCount <= Width * Width
    /\ (pc \in {"call", "loop"} \/ (pc = "ret" /\ ~ret))
          => AssignedCount = AssigningFrames
    /\ \A i \in 1..Len(stack) :
          /\ IsFiniteSet(stack[i].todo)
          /\ stack[i].todo \subseteq 1..Width

\* The progress of the search as a list of digits, most significant first:
\* the phase of backtrack_solve, then one digit per invocation of solve()
\* from the outermost inwards.  An invocation between two candidates with t
\* candidates left counts 3t+1, one whose recursive call has returned 3t+2,
\* one inside its recursive call 3t+3; an invocation that has been called
\* and has not chosen its cell yet counts 3N+2, more than any other.
FrameDigit(i) ==
    LET t == Cardinality(stack[i].todo)
    IN  IF i < Len(stack) THEN 3 * t + 3
        ELSE CASE pc = "loop" -> 3 * t + 1
               [] pc = "ret" -> 3 * t + 2
               [] OTHER -> 3 * t + 3

Progress ==
    [i \in 0..(Width * Width + 1) |->
        IF i = 0 THEN (CASE pc = "start" -> 2 [] pc = "done" -> 0 [] OTHER -> 1)
        ELSE IF i <= Len(stack) THEN FrameDigit(i)
        ELSE IF i = Len(stack) + 1 /\ pc = "call" THEN 3 * Width + 2
        ELSE 0]

\* a is before b in the lexicographic order
LexLess(a, b) ==
    \E i \in DOMAIN a :
        /\ a[i] < b[i]
        /\ \A j \in DOMAIN a : j < i => a[j] = b[j]

\* C6: every call of backtrack_solve terminates: the number of nested
\* invocations that made an assignment equals the number of assigned cells
\* during the search and never exceeds N*N, every invocation has only
\* finitely many candidates of one cell to try, and every step makes the
\* progress measure of the search smaller and leads to a state that is the
\* return of backtrack_solve or has a next step
C6_Terminates ==
    [][ /\ LexLess(Progress', Progress)
        /\ DepthBounded'
        /\ (pc' = "loop" => stack' # <<>>)
      ]_vars

C6_Witness == Len(stack) = Width * Width /\ Width = 3 /\ pc = "call"

\* the grid at entry of the invocation that is about to return
EntryGrid == IF pc = "call" THEN value ELSE Top.entry

\* C7: an invocation of solve() that returns False leaves every cell value
\* as it was at its entry, and when backtrack_solve returns success=false
\* every cell is unassigned
C7_FalseRestores ==
    [][ /\ (pc # "ret" /\ pc' = "ret" /\ ~ret') => value' = EntryGrid
        /\ (pc' = "done" /\ ~result') => \A c \in Cells : value'[c] = NoValue
      ]_vars

C7_Witness ==
    /\ pc = "ret" /\ ~ret /\ Len(stack) >= 2
    /\ stats.recursive_calls >= 3

\* every order in which the constraints of a cell can be listed
Orderings(cons) ==
    {[i \in 1..Len(cons) |-> cons[f[i]]] :
        f \in {h \in [1..Len(cons) -> 1..Len(cons)] :
                  \A i, j \in 1..Len(cons) : h[i] = h[j] => i = j}}

\* the intersection of every constraint's reduce applied to the full domain
Independent(cons, g, dom) ==
    {v \in dom : \A i \in 1..Len(cons) : v \in reduce(cons[i], g, dom)}

\* solve() is at its entry, where it reads the candidates of every
\* unassigned cell
Reading == pc = "call"

\* C8 as claimed: Cell.candidates is the intersection of the independent
\* reductions of the domain, whatever the order of the cell's constraints
C8_AnyOrderAsClaimed ==
    Reading =>
        \A cell \in Range(PuzzleUnassigned(puzzle, value)) :
            \A cons \in Orderings(CellConstraints(puzzle, cell)) :
                narrow(cons, value, domain[cell])
                    = Independent(cons, value, domain[cell])

\* C8 amended: Cell.candidates is the intersection of the independent
\* reductions of the domain when the cage is listed first, as parse_string
\* lists it, or is no Sub or Div cage; the order of the two uniqueness
\* constraints never matters
C8_CageFirst ==
    Reading =>
        \A cell \in Range(PuzzleUnassigned(puzzle, value)) :
            \A cons \in Orderings(CellConstraints(puzzle, cell)) :
                (cons[1].type # TYPE_UNIQUE
                    \/ \A i \in 1..Len(cons) :
                          cons[i].type \notin {TYPE_SUB, TYPE_DIV})
                => /\ narrow(cons, value, domain[cell])
                        = Independent(cons, value, domain[cell])
                   /\ narrow(cons, value, domain[cell])
                        = candidates(puzzle, value, domain, cell)

\* a cell whose cage removed a value that its row or column holds
C8_Witness ==
    /\ Reading
    /\ \E cell \in Cells :
          LET cons == CellConstraints(puzzle, cell)
          IN  /\ value[cell] = NoValue
              /\ cons[1].type \in {TYPE_SUB, TYPE_DIV}
              /\ reduce(cons[1], value, domain[cell]) # domain[cell]
              /\ reduce(cons[2], value, domain[cell]) # domain[cell]
              /\ candidates(puzzle, value, domain, cell) # {}

\* the candidate set Cell.candidates hands to its k-th constraint
RECURSIVE ReduceInput(_, _, _, _)
ReduceInput(cons, g, cands, k) ==
    IF k = 1 THEN cands
    ELSE ReduceInput(Tail(cons), g, cands \cap reduce(Head(cons), g, cands), k - 1)

\* C9: every reduce that Cell.candidates calls, when solve() reads the
\* candidates of the unassigned cells, returns a subset of the candidate set
\* it was given
C9_ReduceNarrows ==
    Reading =>
        \A cell \in Range(PuzzleUnassigned(puzzle, value)) :
            LET cons == CellConstraints(puzzle, cell)
            IN  \A k \in 1..Len(cons) :
                    reduce(cons[k], value,
                           ReduceInput(cons, value, domain[cell], k))
                        \subseteq ReduceInput(cons, value, domain[cell], k)

----------------------------------------------------------------------------
(* C11: what parse_string returns                                           *)

\* the cage constraints and the row and column constraints of a parsed
\* puzzle, by their place in the list parse_string builds
NumParsedCages(pz) == Len(pz.constraints) - 2 * pz.width
CageIndexes(pz) == 1..NumParsedCages(pz)
RowIndexes(pz) == {NumParsedCages(pz) + 2 * i - 1 : i \in 1..pz.width}
ColIndexes(pz) == {NumParsedCages(pz) + 2 * i : i \in 1..pz.width}

InExactlyOne(pz, c, indexes) ==
    Cardinality({i \in indexes : c \in Range(pz.constraints[i].cells)}) = 1

\* two cages of the definition share a cell
Overlapping(d) ==
    \E i, j \in 1..Len(d.cages) : i # j /\ d.cages[i].cells \cap d.cages[j].cells # {}

\* the cages of the definition do not name width * width cells
WrongCellCount(d) ==
    Cardinality(UNION {d.cages[i].cells : i \in 1..Len(d.cages)}) # d.width * d.width

\* C11: parse_string raises or returns a Puzzle of width * width cells, each
\* in exactly one cage, one row constraint and one column constraint, with
\* two cells in every Sub and Div cage; a definition with overlapping cages
\* or a wrong number of cells is never returned as a Puzzle.
C11_ParseContract ==
    /\ pc = "parsed" =>
          /\ Cardinality(Range(puzzle.cells)) = puzzle.width * puzzle.width
          /\ Len(puzzle.cells) = puzzle.width * puzzle.width
          /\ \A c \in Range(puzzle.cells) :
                /\ InExactlyOne(puzzle, c, CageIndexes(puzzle))
                /\ InExactlyOne(puzzle, c, RowIndexes(puzzle))
                /\ InExactlyOne(puzzle, c, ColIndexes(puzzle))
          /\ \A i \in CageIndexes(puzzle) :
                puzzle.constraints[i].type \in {TYPE_SUB, TYPE_DIV}
                    => Len(puzzle.constraints[i].cells) = 2
    /\ (Overlapping(definition) \/ WrongCellCount(definition)) => pc # "parsed"

----------------------------------------------------------------------------
(* C12: what the two counters count                                         *)

\* the step takes a candidate from the loop of the innermost invocation and
\* assigns it
Tries ==
    /\ pc = "loop"
    /\ Len(stack') = Len(stack)
    /\ stack'[Len(stack)].todo # Top.todo

Tried == CHOOSE v \in Top.todo : v \notin stack'[Len(stack)].todo

\* the step ends the innermost invocation after its loop ran out
Exhausts == pc = "loop" /\ Len(stack') < Len(stack)

\* C12: recursive_calls grows by one in exactly the steps that assign a
\* candidate with which the puzzle is consistent, and in no step that assigns
\* one with which it is not; backtracks grows by one in exactly the steps in
\* which an invocation leaves its exhausted loop, and in no step that returns
\* True.
C12_CountersCount ==
    [][/\ stats'.recursive_calls = stats.recursive_calls +
            (IF Tries /\ consistent(puzzle, Assign(value, Top.cell, Tried))
             THEN 1 ELSE 0)
       /\ stats'.backtracks = stats.backtracks + (IF Exhausts THEN 1 ELSE 0)
       /\ Exhausts => (Top.todo = {} /\ ~ret')
       /\ (pc' = "ret" /\ ret') => stats'.backtracks = stats.backtracks]_vars

\* both counters have moved and a candidate that leaves the puzzle
\* inconsistent is about to be tried
C12_Witness ==
    /\ pc = "loop"
    /\ stats.backtracks > 0
    /\ stats.recursive_calls > 1
    /\ \E v \in Top.todo : ~consistent(puzzle, Assign(value, Top.cell, v))

----------------------------------------------------------------------------
(* C13: the counters at the return                                          *)

\* C13: at the return, a failed search has counted one backtrack more than
\* recursive calls and a successful one N*N recursive calls more than
\* backtracks; and an invocation entered with no unassigned cell finds the
\* puzzle solved, so it returns True.
C13_CounterBalance ==
    /\ (Returned /\ ~result) => stats.backtracks = stats.recursive_calls + 1
    /\ (Returned /\ result) =>
          stats.recursive_calls = stats.backtracks + Width * Width
    /\ (pc = "call" /\ PuzzleUnassigned(puzzle, value) = <<>>) =>
          solved(puzzle, value)

\* a failed search that went at least two calls deep
C13_Witness == Returned /\ ~result /\ stats.recursive_calls >= 2

----------------------------------------------------------------------------
(* C14: one cell per invocation                                             *)

\* cell is unassigned in g and no cell unassigned in g has fewer candidates
FewestCandidates(cell, g) ==
    /\ g[cell] = NoValue
    /\ \A d \in Cells :
          g[d] = NoValue =>
              Cardinality(candidates(puzzle, g, domain, cell))
                  <= Cardinality(candidates(puzzle, g, domain, d))

\* some cell unassigned in g has no candidate
SomeCellStuck(g) ==
    \E d \in Cells : g[d] = NoValue /\ candidates(puzzle, g, domain, d) = {}

\* C14: a step that assigns a cell is a step of the innermost invocation and
\* assigns the cell it chose at entry, which had the fewest candidates of the
\* cells unassigned at its entry; every other cell keeps the value it had at
\* the invocation's entry; an invocation keeps its cell and, with its
\* candidates exhausted, returns False; an invocation entered with a cell
\* that has no candidate has nothing to try and assigns nothing.
C14_OneCellPerInvocation ==
    [][/\ \A c \in Cells :
            (value[c] = NoValue /\ value'[c] # NoValue) =>
                /\ pc = "loop"
                /\ c = Top.cell
                /\ FewestCandidates(c, Top.entry)
                /\ ~SomeCellStuck(Top.entry)
                /\ \A d \in Cells \ {c} : value'[d] = Top.entry[d]
       /\ \A i \in 1..Len(stack) :
            i <= Len(stack') => stack'[i].cell = stack[i].cell
       /\ (pc = "call" /\ pc' = "loop") =>
            /\ Len(stack') = Len(stack) + 1
            /\ FewestCandidates(stack'[Len(stack')].cell, value)
            /\ SomeCellStuck(value) => stack'[Len(stack')].todo = {}
            /\ value' = value
       /\ (pc = "loop" /\ Top.todo = {}) =>
            (pc' = "ret" /\ ~ret' /\ value' = value)]_vars

\* an invocation chose a cell that puzzle.unassigned does not yield first,
\* and has assigned it
C14_Witness ==
    /\ pc = "call"
    /\ stack # <<>>
    /\ Top.cell # PuzzleUnassigned(puzzle, Top.entry)[1]
    /\ value[Top.cell] # NoValue

----------------------------------------------------------------------------
(* C15: success is final                                                    *)

FullyAssigned == \A c \in Cells : value[c] # NoValue

\* C15: from the state in which an invocation has returned True on, every
\* step leaves the grid and the counters as they are, takes no candidate
\* from any loop, and only returns True from the next enclosing invocation
\* or from backtrack_solve; the grid is fully assigned and solved all the
\* way, so the grid at the return is the one the innermost invocation found
\* solved.
C15_SuccessIsFinal ==
    [][(pc = "ret" /\ ret) =>
          /\ FullyAssigned /\ solved(puzzle, value)
          /\ value' = value
          /\ stats' = stats
          /\ ret'
          /\ Len(stack') <= Len(stack)
          /\ \A i \in 1..Len(stack') : stack'[i] = stack[i]
          /\ \/ pc' = "ret" /\ Len(stack') = Len(stack) - 1
             \/ pc' = "done" /\ stack = <<>> /\ result']_vars

\* success is being handed up through invocations that still have
\* candidates left to try, after at least one backtrack
C15_Witness ==
    /\ pc = "ret" /\ ret
    /\ Len(stack) >= 2
    /\ \E i \in 1..Len(stack) : stack[i].todo # {}
    /\ stats.backtracks > 0

----------------------------------------------------------------------------
(* C16: assigned values are distinct within every row and column            *)

\* two different cells of one row or of one column
Siblings(c, d) ==
    /\ c # d
    /\ \/ RowOf(Width, c) = RowOf(Width, d)
       \/ ColOf(Width, c) = ColOf(Width, d)

\* the values assigned in g differ within every row and every column
AssignedDistinct(g) ==
    \A c, d \in Cells :
        (Siblings(c, d) /\ g[c] # NoValue /\ g[d] # NoValue) => g[c] # g[d]

\* the uniqueness constraints of the puzzle that have an unassigned cell in g
PartialGroups(g) ==
    {i \in 1..Len(puzzle.constraints) :
        /\ puzzle.constraints[i].type = TYPE_UNIQUE
        /\ unassigned(puzzle.constraints[i], g) # <<>>}

\* C16: in every state of the search, and in the state right after any
\* candidate still to be tried is assigned, the assigned values differ within
\* every row and column; the candidates of an unassigned cell hold no value
\* assigned to a cell of its row or column; and Constraint.consistent is True
\* of a row or column with an unassigned cell whatever value, repeated or
\* not, is put into one of its cells.
C16_RowsColumnsDistinct ==
    /\ AssignedDistinct(value)
    /\ pc = "loop" =>
          \A v \in Top.todo : AssignedDistinct(Assign(value, Top.cell, v))
    /\ Reading =>
          \A c \in Cells :
              value[c] = NoValue =>
                  \A d \in Cells :
                      (Siblings(c, d) /\ value[d] # NoValue) =>
                          value[d] \notin candidates(puzzle, value, domain, c)
    /\ pc = "loop" =>
          \A v \in PuzzleDomain(puzzle) :
              LET g == Assign(value, Top.cell, v)
              IN  \A i \in PartialGroups(g) :
                      ConstraintConsistent(puzzle.constraints[i], g)

\* two cells of a row of three are assigned and the third is being tried
C16_Witness ==
    /\ pc = "loop"
    /\ Width = 3
    /\ Top.todo # {}
    /\ \E c, d \in Cells :
          /\ c # d /\ c # Top.cell /\ d # Top.cell
          /\ RowOf(Width, c) = RowOf(Width, Top.cell)
          /\ RowOf(Width, d) = RowOf(Width, Top.cell)
          /\ value[c] # NoValue /\ value[d] # NoValue

====
